---- MODULE Spec2Model ----
(***************************************************************************)
(* add-osc-8-hyperlink: a filter that reads lines from standard input and  *)
(* wraps every path-looking substring in an OSC 8 terminal hyperlink.      *)
(*                                                                         *)
(* Text is modelled as a sequence of characters, each character a string   *)
(* of the model ("a", "/", ...).  Four characters have a symbolic name:    *)
(* ESC (0x1B), BEL (0x07), a byte that is not valid UTF-8 (BadByte) and    *)
(* U+FFFD, the replacement character (Replacement).                        *)
(***************************************************************************)
EXTENDS Integers, Sequences, FiniteSets, TLC

VARIABLES
    env,          \* what the operating system answers: fixed for one run
    pc,           \* position of main
    exit_status,  \* "running", "ok", "err" (main returned Err) or "panic"
    hostname,     \* main's hostname
    home,         \* main's home
    cwd,          \* main's cwd
    prefixes,     \* main's prefixes (the catalog)
    re,           \* main's compiled Regex
    line,         \* the line of the current loop iteration
    result,       \* process_line's value for it
    caps,         \* the matches replace_all went through to build it, in order
    stdin_read,   \* the raw chunks consumed from standard input, in order
    stdout        \* the lines written to standard output, in order

vars == <<env, pc, exit_status, hostname, home, cwd, prefixes, re, line,
          result, caps, stdin_read, stdout>>

-----------------------------------------------------------------------------
(* Characters *)

ESC == "ESC"
BELCHAR == "BEL"
BadByte == "xFF"
Replacement == "uFFFD"
LF == "\n"
CR == "\r"
TAB == "\t"
BACKSLASH == "\\"
QUOTE == "\""

OSC == <<ESC, "]">>
BEL == <<BELCHAR>>

\* the concatenation of a sequence of character sequences
RECURSIVE Concat(_)
Concat(ss) == IF ss = <<>> THEN <<>> ELSE Head(ss) \o Concat(Tail(ss))

\* the elements of ss joined by the character sequence sep
RECURSIVE Join(_, _)
Join(ss, sep) ==
    IF ss = <<>> THEN <<>>
    ELSE IF Len(ss) = 1 THEN ss[1]
    ELSE ss[1] \o sep \o Join(Tail(ss), sep)

Range(s) == {s[i] : i \in 1..Len(s)}

StartsWith(s, p) == Len(p) <= Len(s) /\ SubSeq(s, 1, Len(p)) = p

\* OsStr::to_string_lossy, and str::from_utf8 by way of its failure
to_string_lossy(bytes) ==
    [i \in 1..Len(bytes) |-> IF bytes[i] = BadByte THEN Replacement ELSE bytes[i]]

IsUtf8(bytes) == BadByte \notin Range(bytes)

-----------------------------------------------------------------------------
(* make_hyperlink *)

\* the closing sequence left out
make_hyperlink_unclosed(url, text) == OSC \o <<"8", ";", ";">> \o url \o BEL \o text

make_hyperlink(url, text) ==
    OSC \o <<"8", ";", ";">> \o url \o BEL \o text \o OSC \o <<"8", ";", ";">> \o BEL

-----------------------------------------------------------------------------
(* regex::escape and build_pattern *)

MetaChars ==
    {BACKSLASH, ".", "+", "*", "?", "(", ")", "|", "[", "]", "{", "}", "^", "$",
     "#", "&", "-", "~"}

\* the names joined into the pattern as they are
regex_escape_none(s) == s

regex_escape(s) ==
    Concat([i \in 1..Len(s) |->
                IF s[i] \in MetaChars THEN <<BACKSLASH, s[i]>> ELSE <<s[i]>>])

\* the class without the escape character
TailPattern_without_esc ==
    <<"(", "?", ":", "/", "[", "^", "$", BACKSLASH, "s", ";", "~", ":", QUOTE, "]", "+", ")", "?">>

\* the text of  (?:/[^$\s;~:"\x1b]+)?
TailPattern ==
    <<"(", "?", ":", "/", "[", "^", "$", BACKSLASH, "s", ";", "~", ":", QUOTE,
      BACKSLASH, "x", "1", "b", "]", "+", ")", "?">>

build_pattern(pfx) ==
    <<"(", "?", ":">> \o Join(pfx, <<"|">>) \o <<")">> \o TailPattern

-----------------------------------------------------------------------------
(* Regex::new: the pattern text is parsed into the alternatives of its first  *)
(* group and the excluded characters of the class of its second group.  An   *)
(* alternative is a sequence of atoms: a literal character, or AnyChar for   *)
(* an unescaped dot.  Quantifiers inside an alternative are not modelled: an *)
(* escaped catalog holds none.                                               *)

AnyChar == "<any>"
Whitespace == {" ", TAB, CR, LF}
Invalid == [ok |-> FALSE]

\* the positions from i on of the backslashes of pattern p that escape the
\* character after them: the first backslash does, and escapes the character
\* after it, whatever that is
RECURSIVE Escapes(_, _)
Escapes(p, i) ==
    LET bs == {j \in i..Len(p) : p[j] = BACKSLASH} IN
    IF bs = {} THEN {}
    ELSE LET j == CHOOSE b \in bs : \A c \in bs : b <= c
         IN {j} \cup Escapes(p, j + 2)

\* the atoms of positions lo..hi, an alternative of the first group: an escaped
\* character stands for itself, an unescaped dot for any character
Atoms(p, esc, lo, hi) ==
    LET kept == SelectSeq([i \in 1..(hi - lo + 1) |-> lo + i - 1], LAMBDA i : i \notin esc)
    IN [n \in 1..Len(kept) |->
            IF p[kept[n]] = "." /\ (kept[n] - 1) \notin esc THEN AnyChar ELSE p[kept[n]]]

\* the first group of p, which opens at position 1 with (?: : its alternatives,
\* split at the unescaped bars, and the position after its closing parenthesis
ParseAlts(p) ==
    LET esc == Escapes(p, 1)
        raw(i) == i \notin esc /\ (i - 1) \notin esc
        closers == {i \in 4..Len(p) : p[i] = ")" /\ raw(i)}
    IN
    IF closers = {} \/ Len(p) \in esc THEN [ok |-> FALSE]
    ELSE LET close == CHOOSE i \in closers : \A j \in closers : i <= j
             bars == {i \in 4..(close - 1) : p[i] = "|" /\ raw(i)}
             cuts == bars \cup {3, close}
             \* the k-th cut in increasing order, k from 0
             cut(k) == CHOOSE c \in cuts : Cardinality({d \in cuts : d < c}) = k
         IN [ok |-> TRUE,
             alts |-> [k \in 1..(Cardinality(bars) + 1) |->
                          Atoms(p, esc, cut(k - 1) + 1, cut(k) - 1)],
             next |-> close + 1]

\* the characters a negated class excludes: c is the class text after [^
RECURSIVE ParseClass(_, _)
ParseClass(c, i) ==
    IF i > Len(c) THEN {}
    ELSE IF c[i] = BACKSLASH /\ i + 1 <= Len(c) /\ c[i + 1] = "s"
        THEN Whitespace \cup ParseClass(c, i + 2)
    ELSE IF c[i] = BACKSLASH /\ i + 3 <= Len(c) /\ SubSeq(c, i + 1, i + 3) = <<"x", "1", "b">>
        THEN {ESC} \cup ParseClass(c, i + 4)
    ELSE {c[i]} \cup ParseClass(c, i + 1)

\* the second group: (?:/[^ class ]+)?
ParseTail(t) ==
    IF /\ Len(t) >= 10
       /\ SubSeq(t, 1, 6) = <<"(", "?", ":", "/", "[", "^">>
       /\ SubSeq(t, Len(t) - 3, Len(t)) = <<"]", "+", ")", "?">>
    THEN [ok |-> TRUE, excl |-> ParseClass(SubSeq(t, 7, Len(t) - 4), 1)]
    ELSE [ok |-> FALSE]

Regex_new(pattern) ==
    IF ~StartsWith(pattern, <<"(", "?", ":">>) THEN Invalid
    ELSE LET a == ParseAlts(pattern) IN
         IF ~a.ok THEN Invalid
         ELSE LET t == ParseTail(SubSeq(pattern, a.next, Len(pattern))) IN
              IF ~t.ok \/ \E k \in 1..Len(a.alts) : a.alts[k] = <<>> THEN Invalid
              ELSE [ok |-> TRUE, alts |-> a.alts, excl |-> t.excl]

-----------------------------------------------------------------------------
(* The search of the compiled pattern: leftmost start, first alternative that *)
(* matches there, then the optional group, greedily.                          *)

NoMatch == [found |-> FALSE]

AtomMatches(atom, ch) == IF atom = AnyChar THEN ch # LF ELSE atom = ch

\* alternative alt matches text s at position p
MatchAlt(alt, s, p) ==
    /\ p + Len(alt) - 1 <= Len(s)
    /\ \A i \in 1..Len(alt) : AtomMatches(alt[i], s[p + i - 1])

\* the alternatives matching at p, by index
AltsAt(rx, s, p) == {k \in 1..Len(rx.alts) : MatchAlt(rx.alts[k], s, p)}

\* the alternation is ordered: the first alternative that matches is taken
FirstAlt(rx, s, p) ==
    LET a == AltsAt(rx, s, p) IN CHOOSE k \in a : \A j \in a : k <= j

\* the class taken once instead of one or more times
TailEnd_once(rx, s, e) ==
    IF e + 1 <= Len(s) /\ s[e] = "/" /\ s[e + 1] \notin rx.excl THEN e + 2 ELSE e

\* (?:/[^...]+)? from position e, the first position after the prefix: the
\* position after the match
TailEnd(rx, s, e) ==
    IF e + 1 <= Len(s) /\ s[e] = "/" /\ s[e + 1] \notin rx.excl
    THEN CHOOSE j \in (e + 2)..(Len(s) + 1) :
            /\ j = Len(s) + 1 \/ s[j] \in rx.excl
            /\ \A i \in (e + 2)..(j - 1) : s[i] \notin rx.excl
    ELSE e

\* the match that starts at p, p a position where an alternative matches
MatchAt(rx, s, p) ==
    LET k == FirstAlt(rx, s, p) IN
    [found |-> TRUE, start |-> p, alt |-> k,
     end |-> TailEnd(rx, s, p + Len(rx.alts[k]))]

\* Regex::find_at: the leftmost match starting at from or later.  end is the
\* position after the match.
find_at(rx, s, from) ==
    LET scan[p \in from..(Len(s) + 1)] ==
            IF p > Len(s) THEN NoMatch
            ELSE IF \E k \in 1..Len(rx.alts) : MatchAlt(rx.alts[k], s, p)
                THEN MatchAt(rx, s, p)
            ELSE scan[p + 1]
    IN scan[from]

\* Regex::find_iter: the successive non-overlapping matches, in order
find_iter(rx, s) ==
    LET it[from \in 1..(Len(s) + 1)] ==
            LET m == find_at(rx, s, from) IN
            IF ~m.found THEN <<>> ELSE <<m>> \o it[m.end]
    IN it[1]

-----------------------------------------------------------------------------
(* process_line *)

is_absolute(path) == path # <<>> /\ path[1] = "/"

\* the separator left out
path_join_no_separator(base, path) == IF is_absolute(path) THEN path ELSE base \o path

\* Path::join
path_join(base, path) ==
    IF is_absolute(path) THEN path
    ELSE IF base = <<>> \/ base[Len(base)] = "/" THEN base \o path
    ELSE base \o <<"/">> \o path

\* the test for a leading ~ instead of a leading ~/
expand_home_any_tilde(matched, hm) ==
    IF StartsWith(matched, <<"~">>)
    THEN hm \o SubSeq(matched, 2, Len(matched))
    ELSE matched

\* lines 28-33
expand_home(matched, hm) ==
    IF StartsWith(matched, <<"~", "/">>)
    THEN hm \o SubSeq(matched, 2, Len(matched))
    ELSE matched

\* lines 35-40
absolutize(expanded, wd) ==
    IF is_absolute(expanded) THEN expanded
    ELSE to_string_lossy(path_join(wd, expanded))

\* line 42
make_url(matched, host, hm, wd) ==
    LET expanded == expand_home(matched, hm)
        abs_path == absolutize(expanded, wd)
    IN <<"f", "i", "l", "e", ":", "/", "/">> \o host \o abs_path

\* the closure handed to replace_all
replacement(matched, host, hm, wd) ==
    make_hyperlink(make_url(matched, host, hm, wd), matched)

\* Regex::replace_all with the closure: the text between the matches is
\* copied, each match is replaced.  The matches it goes through are those of
\* find_iter.
process_line(ln, rx, host, hm, wd) ==
    LET rep[from \in 1..(Len(ln) + 1)] ==
            LET m == find_at(rx, ln, from) IN
            IF ~m.found THEN SubSeq(ln, from, Len(ln))
            ELSE LET matched == SubSeq(ln, m.start, m.end - 1) IN
                 SubSeq(ln, from, m.start - 1)
                 \o replacement(matched, host, hm, wd)
                 \o rep[m.end]
    IN rep[1]

-----------------------------------------------------------------------------
(* get_prefixes *)

\* S("abc")-style literals are not available: the fixed list, spelled out
FixedPrefixes ==
    << <<"/", "b", "i", "n">>,
       <<"/", "b", "o", "o", "t">>,
       <<"/", "d", "e", "v">>,
       <<"/", "e", "t", "c">>,
       <<"/", "h", "o", "m", "e">>,
       <<"/", "l", "i", "b">>,
       <<"/", "l", "i", "b", "6", "4">>,
       <<"/", "l", "o", "s", "t", "+", "f", "o", "u", "n", "d">>,
       <<"/", "m", "n", "t">>,
       <<"/", "o", "p", "t">>,
       <<"/", "p", "r", "o", "c">>,
       <<"/", "r", "o", "o", "t">>,
       <<"/", "r", "u", "n">>,
       <<"/", "s", "b", "i", "n">>,
       <<"/", "s", "r", "v">>,
       <<"/", "s", "y", "s">>,
       <<"/", "t", "m", "p">>,
       <<"/", "u", "s", "r">>,
       <<"/", "v", "a", "r">> >>

Tilde == <<"~">>

\* an entry of a directory listing: Ok(DirEntry) with its file name, or Err
EntryErr == [ok |-> FALSE]
Entry(name) == [ok |-> TRUE, name |-> name]

\* lines 60-64: entries.flatten() drops the Err items, to_str() the names that
\* are not UTF-8; the others are escaped and pushed in listing order
RECURSIVE dynamic_prefixes(_)
dynamic_prefixes(entries) ==
    IF entries = <<>> THEN <<>>
    ELSE LET e == Head(entries) IN
         (IF e.ok /\ IsUtf8(e.name) THEN <<regex_escape(e.name)>> ELSE <<>>)
         \o dynamic_prefixes(Tail(entries))

\* read_dir is fs::read_dir(cwd): [ok |-> TRUE, entries |-> ...] or [ok |-> FALSE]
get_prefixes(read_dir) ==
    [i \in 1..Len(FixedPrefixes) |-> regex_escape(FixedPrefixes[i])]
    \o (IF read_dir.ok THEN dynamic_prefixes(read_dir.entries) ELSE <<>>)
    \o <<regex_escape(Tilde)>>

-----------------------------------------------------------------------------
(* The environment main queries once at startup *)

Localhost == <<"l", "o", "c", "a", "l", "h", "o", "s", "t">>

\* hostname::get(): Ok(OsString) or Err
HostEnvs == {[ok |-> TRUE, val |-> <<"h", BadByte>>], [ok |-> FALSE, val |-> <<>>]}

\* the HOME variable: unset, an absolute path, a relative one, not UTF-8
HomeEnvs ==
    {[ok |-> FALSE, val |-> <<>>],
     [ok |-> TRUE, val |-> <<"/", "h">>],
     [ok |-> TRUE, val |-> <<"r">>],
     [ok |-> TRUE, val |-> <<"/", BadByte>>]}

\* the current directory as getcwd reports it
CwdPaths == {<<"/">>, <<"/", "w">>, <<"/", "w", BadByte>>}

\* what listing the current directory yields, in the directory's own order
DirListings ==
    { <<Entry(<<"s", "r", "c">>), EntryErr, Entry(<<"n", BadByte>>), Entry(<<".", "m">>)>>,
      <<Entry(<<"s">>), Entry(<<"s", "r", "c">>), Entry(<<"m">>)>> }

\* the current directory: "ok", "unreadable" (listing it fails) or "deleted"
\* (getcwd itself fails)
CwdEnvs ==
    {[state |-> "ok", path |-> p, entries |-> l] : p \in CwdPaths, l \in DirListings}
    \cup {[state |-> st, path |-> p, entries |-> <<>>] :
              st \in {"unreadable", "deleted"}, p \in CwdPaths}

Envs == {[hostname |-> h, HOME |-> hm, cwd |-> c] :
            h \in HostEnvs, hm \in HomeEnvs, c \in CwdEnvs}

\* lines 74-76
hostname_get(e) == IF e.hostname.ok THEN to_string_lossy(e.hostname.val) ELSE Localhost

\* line 78: env::var fails on an unset variable and on one that is not UTF-8
env_home(e) == IF e.HOME.ok /\ IsUtf8(e.HOME.val) THEN e.HOME.val ELSE <<>>

\* line 79
current_dir(e) ==
    IF e.cwd.state = "deleted" THEN [ok |-> FALSE, val |-> <<>>]
    ELSE [ok |-> TRUE, val |-> e.cwd.path]

\* line 59
read_dir(e) ==
    IF e.cwd.state = "ok" THEN [ok |-> TRUE, entries |-> e.cwd.entries]
    ELSE [ok |-> FALSE, entries |-> <<>>]

-----------------------------------------------------------------------------
(* Standard input *)

MaxLines == 2

\* texts of the lines fed to the main loop
StreamTexts ==
    { <<"x">>,
      <<"/", "t", "m", "p", "/", "a", " ", "~", "/", "d", ESC, "[", "m">> }

\* a line ends with LF, with CR LF, or with the end of the stream
Terminators == { <<LF>>, <<CR, LF>>, <<>> }

StreamChunks == {t \o term : t \in StreamTexts, term \in Terminators}

\* BufRead::lines: the LF and a CR before it are removed
StripLine(raw) ==
    LET a == IF raw # <<>> /\ raw[Len(raw)] = LF THEN SubSeq(raw, 1, Len(raw) - 1) ELSE raw
    IN IF a # raw /\ a # <<>> /\ a[Len(a)] = CR THEN SubSeq(a, 1, Len(a) - 1) ELSE a

\* the stream ended inside the last chunk read
AtEof == stdin_read # <<>> /\ LET c == stdin_read[Len(stdin_read)] IN c[Len(c)] # LF

-----------------------------------------------------------------------------
(* main *)

Uncompiled == [ok |-> FALSE]

Init ==
    /\ env \in Envs
    /\ pc = "hostname"
    /\ exit_status = "running"
    /\ hostname = <<>>
    /\ home = <<>>
    /\ cwd = <<>>
    /\ prefixes = <<>>
    /\ re = Uncompiled
    /\ line = <<>>
    /\ result = <<>>
    /\ caps = <<>>
    /\ stdin_read = <<>>
    /\ stdout = <<>>

\* lines 74-76
GetHostname ==
    /\ pc = "hostname"
    /\ hostname' = hostname_get(env)
    /\ pc' = "home"
    /\ UNCHANGED <<env, exit_status, home, cwd, prefixes, re, line, result, caps, stdin_read, stdout>>

\* line 78
GetHome ==
    /\ pc = "home"
    /\ home' = env_home(env)
    /\ pc' = "cwd"
    /\ UNCHANGED <<env, exit_status, hostname, cwd, prefixes, re, line, result, caps, stdin_read, stdout>>

\* line 79: the ? returns the error from main
GetCwd ==
    /\ pc = "cwd"
    /\ LET r == current_dir(env) IN
       IF r.ok
       THEN cwd' = r.val /\ pc' = "prefixes" /\ UNCHANGED exit_status
       ELSE pc' = "exit" /\ exit_status' = "err" /\ UNCHANGED cwd
    /\ UNCHANGED <<env, hostname, home, prefixes, re, line, result, caps, stdin_read, stdout>>

\* line 81
GetPrefixes ==
    /\ pc = "prefixes"
    /\ prefixes' = get_prefixes(read_dir(env))
    /\ pc' = "regex"
    /\ UNCHANGED <<env, exit_status, hostname, home, cwd, re, line, result, caps, stdin_read, stdout>>

\* lines 82-83: expect panics on a pattern that does not compile
Compile ==
    /\ pc = "regex"
    /\ LET r == Regex_new(build_pattern(prefixes)) IN
       /\ re' = r
       /\ IF r.ok
          THEN pc' = "read" /\ UNCHANGED exit_status
          ELSE pc' = "exit" /\ exit_status' = "panic"
    /\ UNCHANGED <<env, hostname, home, cwd, prefixes, line, result, caps, stdin_read, stdout>>

\* lines 89-90: the iterator yields Some(Ok(line))
ReadLine ==
    /\ pc = "read"
    /\ ~AtEof
    /\ Len(stdin_read) < MaxLines
    /\ \E raw \in StreamChunks :
          /\ stdin_read' = Append(stdin_read, raw)
          /\ line' = StripLine(raw)
    /\ pc' = "process"
    /\ UNCHANGED <<env, exit_status, hostname, home, cwd, prefixes, re, result, caps, stdout>>

\* line 89 and 95: the iterator yields None, main returns Ok(())
ReadEof ==
    /\ pc = "read"
    /\ pc' = "exit"
    /\ exit_status' = "ok"
    /\ UNCHANGED <<env, hostname, home, cwd, prefixes, re, line, result, caps, stdin_read, stdout>>

\* line 90: the iterator yields Some(Err(e)), the ? returns it from main
ReadErr ==
    /\ pc = "read"
    /\ pc' = "exit"
    /\ exit_status' = "err"
    /\ UNCHANGED <<env, hostname, home, cwd, prefixes, re, line, result, caps, stdin_read, stdout>>

\* line 91
Process ==
    /\ pc = "process"
    /\ result' = process_line(line, re, hostname, home, cwd)
    /\ caps' = find_iter(re, line)
    /\ pc' = "write"
    /\ UNCHANGED <<env, exit_status, hostname, home, cwd, prefixes, re, line, stdin_read, stdout>>

\* line 92: writeln! succeeds
WriteLine ==
    /\ pc = "write"
    /\ stdout' = Append(stdout, result \o <<LF>>)
    /\ pc' = "read"
    /\ UNCHANGED <<env, exit_status, hostname, home, cwd, prefixes, re, line, result, caps, stdin_read>>

\* the write error dropped, the loop going on
WriteErr_ignored ==
    /\ pc = "write"
    /\ pc' = "read"
    /\ UNCHANGED <<env, exit_status, hostname, home, cwd, prefixes, re, line, result, caps,
                   stdin_read, stdout>>

\* line 92: writeln! fails, the ? returns the error from main
WriteErr ==
    /\ pc = "write"
    /\ pc' = "exit"
    /\ exit_status' = "err"
    /\ UNCHANGED <<env, hostname, home, cwd, prefixes, re, line, result, caps, stdin_read, stdout>>

Next ==
    \/ GetHostname
    \/ GetHome
    \/ GetCwd
    \/ GetPrefixes
    \/ Compile
    \/ ReadLine
    \/ ReadEof
    \/ ReadErr
    \/ Process
    \/ WriteLine
    \/ WriteErr

Spec == Init /\ [][Next]_vars

-----------------------------------------------------------------------------
(* One iteration of the loop body on a bounded set of lines: main has        *)
(* finished its startup in some environment and has just read the line.      *)

MaxPieces == 3

Pieces ==
    { <<"/", "t", "m", "p">>,
      <<"/", "a">>,
      <<" ">>,
      <<ESC, "[", "m">>,
      <<"~">>,
      <<"s", "r", "c">>,
      <<":">>,
      <<"/", "l", "i", "b", "6", "4">> }

\* the concatenations of at most n pieces
RECURSIVE LinesOf(_)
LinesOf(n) ==
    IF n = 0 THEN {<<>>}
    ELSE LinesOf(n - 1) \cup {p \o l : p \in Pieces, l \in LinesOf(n - 1)}

Lines == LinesOf(MaxPieces)

\* the environments of the runs that reach the loop: the hostname is known,
\* HOME is unset, absolute or relative, the current directory is / or not
LineEnvs ==
    {e \in Envs : /\ e.cwd.state # "deleted"
                  /\ e.cwd.path # <<"/", "w">>
                  /\ IsUtf8(e.HOME.val)
                  /\ e.hostname.ok}

InitLine ==
    /\ env \in LineEnvs
    /\ pc = "process"
    /\ exit_status = "running"
    /\ hostname = hostname_get(env)
    /\ home = env_home(env)
    /\ cwd = current_dir(env).val
    /\ prefixes = get_prefixes(read_dir(env))
    /\ re = Regex_new(build_pattern(prefixes))
    /\ line \in Lines
    /\ result = <<>>
    /\ caps = <<>>
    /\ stdin_read = <<line \o <<LF>> >>
    /\ stdout = <<>>

NextLine == Process

SpecLine == InitLine /\ [][NextLine]_vars

-----------------------------------------------------------------------------
(* Vocabulary of the properties *)

\* sub occurs in s as a contiguous subsequence
Occurs(sub, s) ==
    LET pat == sub
        n == Len(pat)
    IN \E i \in 1..(Len(s) - n + 1) : SubSeq(s, i, i + n - 1) = pat

\* the loop body has rewritten the current line
Rewrote == pc = "write"

\* the matches of the scan of the current line: records with start, end (the
\* position after the match) and alt (the alternative that matched)
Matches == caps

TextOf(m) == SubSeq(line, m.start, m.end - 1)

\* the characters that end a path segment
ExclusionSet == {" ", TAB, CR, LF, "$", ";", "~", ":", QUOTE, ESC}

Opener(url) == <<ESC, "]", "8", ";", ";">> \o url \o <<BELCHAR>>
Closer == <<ESC, "]", "8", ";", ";", BELCHAR>>
FileScheme == <<"f", "i", "l", "e", ":", "/", "/">>

\* ln with each span of ms (in order, disjoint) replaced by Op(its text), its
\* text, Cl; everything else copied
Assemble(ln, ms, Op(_), Cl) ==
    LET txt(k) == SubSeq(ln, ms[k].start, ms[k].end - 1)
        gapAfter(k) ==
            SubSeq(ln, ms[k].end, IF k = Len(ms) THEN Len(ln) ELSE ms[k + 1].start - 1)
        first == IF ms = <<>> THEN Len(ln) ELSE ms[1].start - 1
    IN SubSeq(ln, 1, first)
       \o Concat([k \in 1..Len(ms) |-> Op(txt(k)) \o txt(k) \o Cl \o gapAfter(k)])

\* the catalog as the names it was built from, in catalog order
EntryNames ==
    IF env.cwd.state # "ok" THEN <<>>
    ELSE LET kept == SelectSeq(env.cwd.entries, LAMBDA e : e.ok /\ IsUtf8(e.name))
         IN [i \in 1..Len(kept) |-> kept[i].name]

CatalogNames == FixedPrefixes \o EntryNames \o <<Tilde>>

\* the current working directory as text, and a relative path resolved in it
CwdText == to_string_lossy(cwd)

InCwd(path) ==
    LET dir == CwdText IN
    IF dir # <<>> /\ dir[Len(dir)] = "/" THEN dir \o path
    ELSE dir \o <<"/">> \o path

\* absolutization as section 4.3 step 2 states it
Absolute(path) ==
    LET q == path IN IF q # <<>> /\ q[1] = "/" THEN q ELSE InCwd(q)

TildeSlash(m) == Len(m) >= 2 /\ m[1] = "~" /\ m[2] = "/"

\* home expansion as section 4.3 step 1 states it
HomeExpanded(m) == IF TildeSlash(m) THEN home \o SubSeq(m, 2, Len(m)) ELSE m

-----------------------------------------------------------------------------
(* C1 *)

CodeOpener(m) == LET text == m IN Opener(make_url(text, hostname, home, cwd))
NoText(m) == <<>>

\* C1: the output of process_line is the input line in which each match M of
\* the leftmost non-overlapping scan is replaced by ESC ] 8 ; ; url BEL M
\* ESC ] 8 ; ; BEL, every character outside a match being copied unchanged
\* and in order; deleting the openers and closers gives back the input line.
C1_EnvelopeRewrite ==
    Rewrote =>
        LET ms == Matches IN
        /\ result = Assemble(line, ms, CodeOpener, Closer)
        /\ Assemble(line, ms, NoText, <<>>) = line
        /\ \A k \in 1..Len(ms) :
              /\ 1 <= ms[k].start /\ ms[k].start < ms[k].end
              /\ ms[k].end <= Len(line) + 1
              /\ k < Len(ms) => ms[k].end <= ms[k + 1].start

\* a line with two matches and text between them has been rewritten
C1_Witness ==
    /\ Rewrote
    /\ LET ms == Matches IN
       /\ Len(ms) = 2
       /\ ms[1].end < ms[2].start
       /\ ms[2].end = Len(line) + 1

-----------------------------------------------------------------------------
(* C2 *)

\* C2: a line that contains none of the catalog prefixes as a substring is
\* returned exactly, whatever the hostname, home and cwd.
C2_NoPrefixUnchanged ==
    Rewrote =>
        LET names == CatalogNames IN
        (\A i \in 1..Len(names) : ~Occurs(names[i], line)) => result = line

\* a non-empty line free of prefixes, with escape and exclusion characters,
\* has been rewritten in a directory that has entries
C2_Witness ==
    /\ Rewrote
    /\ EntryNames # <<>>
    /\ Len(line) >= 3
    /\ ESC \in Range(line)
    /\ LET names == CatalogNames IN \A i \in 1..Len(names) : ~Occurs(names[i], line)

-----------------------------------------------------------------------------
(* C3 *)

\* the last position of the escape sequence that starts with the ESC at i: for
\* ESC [ the parameter characters and one final character, else one character
EscapeEnd(ln, i) ==
    IF i + 1 <= Len(ln) /\ ln[i + 1] = "["
    THEN LET params == {"0", "1", "2", "3", "4", "5", "6", "7", "8", "9", ";"}
             stops == {j \in (i + 2)..Len(ln) : ln[j] \notin params}
         IN IF stops = {} THEN Len(ln)
            ELSE CHOOSE j \in stops : \A k \in stops : j <= k
    ELSE IF i + 1 <= Len(ln) THEN i + 1 ELSE i

\* C3: no character of an escape sequence of the input line lies inside a
\* match, for every catalog get_prefixes can produce.
C3_EscapesNeverMatched ==
    Rewrote =>
        LET ms == Matches IN
        \A i \in 1..Len(line) :
            line[i] = ESC =>
                \A k \in 1..Len(ms) : ms[k].end <= i \/ ms[k].start > EscapeEnd(line, i)

-----------------------------------------------------------------------------
(* C4 *)

\* the position after the prefix of match m
PrefixEnd(m) == m.start + Len(re.alts[m.alt])

\* the first position from p on that holds an exclusion character, or the
\* position after the line
FirstExcluded(p) ==
    LET xs == {j \in p..Len(line) : line[j] \in ExclusionSet} IN
    IF xs = {} THEN Len(line) + 1 ELSE CHOOSE j \in xs : \A k \in xs : j <= k

\* where the match must end: before the first exclusion character after the
\* prefix when a slash and a segment character follow the prefix, else at the
\* end of the prefix
PathEnd(m) ==
    LET pe == PrefixEnd(m)
        q == FirstExcluded(pe)
    IN IF pe <= Len(line) /\ line[pe] = "/" /\ q >= pe + 2 THEN q ELSE pe

\* C4: every match ends before the first exclusion-set character that follows
\* its prefix: it is exactly the path text, and what follows it (an escape
\* sequence, punctuation of the exclusion set) stays outside the wrapper.
C4_BoundaryExclusion ==
    Rewrote =>
        LET ms == Matches IN
        \A k \in 1..Len(ms) :
            LET m == ms[k]
                pathEnd == PathEnd(m)
            IN
            /\ m.end <= FirstExcluded(PrefixEnd(m))
            /\ m.end = pathEnd
            /\ Occurs(<<BELCHAR>> \o SubSeq(line, m.start, pathEnd - 1) \o Closer, result)

\* a path with a segment, immediately followed by an escape sequence
C4_Witness ==
    /\ Rewrote
    /\ LET ms == Matches IN
       \E k \in 1..Len(ms) :
          LET m == ms[k] IN
          /\ m.end > PrefixEnd(m)
          /\ m.end <= Len(line)
          /\ line[m.end] = ESC

-----------------------------------------------------------------------------
(* C5 *)

\* the whitespace-separated tokens of the current line, by first position
TokenStarts ==
    {p \in 1..Len(line) : line[p] \notin Whitespace /\ (p = 1 \/ line[p - 1] \in Whitespace)}

\* the position after the token that starts at p
TokenEnd(p) ==
    LET ws == {j \in p..Len(line) : line[j] \in Whitespace} IN
    IF ws = {} THEN Len(line) + 1 ELSE CHOOSE j \in ws : \A k \in ws : j <= k

\* name n stands at position p, inside the text before position e
NameAt(n, p, e) == p + Len(n) <= e /\ SubSeq(line, p, p + Len(n) - 1) = n

\* the path occurrences: the tokens that start with a catalog prefix
PathStarts(names) ==
    {p \in TokenStarts : \E i \in 1..Len(names) : NameAt(names[i], p, TokenEnd(p))}

\* the path occurrences as spans, in line order
PathTokens ==
    LET ps == PathStarts(CatalogNames)
        nth(k) == CHOOSE p \in ps : Cardinality({q \in ps : q < p}) = k - 1
    IN [k \in 1..Cardinality(ps) |-> [start |-> nth(k), end |-> TokenEnd(nth(k))]]

Spans(ms) == [k \in 1..Len(ms) |-> [start |-> ms[k].start, end |-> ms[k].end]]

NonOverlapping(ms) ==
    \A j, k \in 1..Len(ms) :
        j # k => \A p \in ms[j].start..(ms[j].end - 1) : p \notin ms[k].start..(ms[k].end - 1)

\* the statement of C5 as written: one envelope for each token that starts
\* with a catalog prefix, around the whole token
C5_AsWritten ==
    Rewrote =>
        LET ms == Matches
            toks == PathTokens
        IN /\ result = Assemble(line, toks, CodeOpener, Closer)
           /\ NonOverlapping(ms)

\* the token at p is the first catalog prefix that stands at p, alone or
\* followed by a slash and one or more characters outside the exclusion set
PathShaped(names, p) ==
    LET e == TokenEnd(p)
        here == {i \in 1..Len(names) : NameAt(names[i], p, e)}
        first == CHOOSE i \in here : \A j \in here : i <= j
        r == p + Len(names[first])
    IN \/ r = e
       \/ /\ r + 1 < e
          /\ line[r] = "/"
          /\ \A j \in (r + 1)..(e - 1) : line[j] \notin ExclusionSet

\* every path occurrence is path-shaped and no catalog prefix stands at a
\* position outside the path occurrences
PathLine ==
    LET names == CatalogNames
        ps == PathStarts(names)
    IN /\ \A p \in ps : PathShaped(names, p)
       /\ \A p \in 1..Len(line) :
             (\E i \in 1..Len(names) : NameAt(names[i], p, Len(line) + 1))
                 => \E q \in ps : q <= p /\ p < TokenEnd(q)

\* C5 (amended): in a line whose catalog prefixes stand only inside its n
\* path-shaped tokens, the output has exactly n envelopes, one around each of
\* these tokens in full; and in every line no two matches share a position.
C5_Multiplicity ==
    Rewrote =>
        LET ms == Matches IN
        /\ NonOverlapping(ms)
        /\ PathLine =>
              LET toks == PathTokens IN
              /\ Spans(ms) = toks
              /\ result = Assemble(line, toks, CodeOpener, Closer)

\* a line with two path occurrences, of different prefixes, has been rewritten
C5_Witness ==
    /\ Rewrote
    /\ PathLine
    /\ LET toks == PathTokens IN
       /\ Len(toks) = 2
       /\ line[toks[1].start] # line[toks[2].start]

-----------------------------------------------------------------------------
(* C6 *)

\* the envelope around match text m whose URL has the given path
EnvelopeOf(path, m) == Opener(FileScheme \o hostname \o path) \o m \o Closer

\* the statement of C6 as written: the URL path of a match that begins with ~/
\* is home followed by the match without its tilde
C6_AsWritten ==
    Rewrote =>
        LET ms == Matches IN
        \A k \in 1..Len(ms) :
            LET m == TextOf(ms[k]) IN
            IF TildeSlash(m)
            THEN Occurs(EnvelopeOf(home \o SubSeq(m, 2, Len(m)), m), result)
            ELSE Occurs(EnvelopeOf(Absolute(m), m), result)

\* C6 (amended): for a match M that begins with ~/ the home-expanded string is
\* home followed by M without its tilde; it is the URL path when it is
\* absolute (home is empty or begins with a slash) and is resolved against
\* the current working directory otherwise.  A match that does not begin
\* with ~/, a bare ~ included, is not home-expanded.
C6_HomeExpansion ==
    Rewrote =>
        LET ms == Matches IN
        \A k \in 1..Len(ms) :
            LET m == TextOf(ms[k])
                expanded == home \o SubSeq(m, 2, Len(m))
            IN
            IF TildeSlash(m)
            THEN IF home = <<>> \/ home[1] = "/"
                 THEN Occurs(EnvelopeOf(expanded, m), result)
                 ELSE Occurs(EnvelopeOf(InCwd(expanded), m), result)
            ELSE Occurs(EnvelopeOf(Absolute(m), m), result)

\* a line with a ~/ match and a bare ~ match, rewritten with an absolute home
C6_Witness ==
    /\ Rewrote
    /\ home # <<>>
    /\ home[1] = "/"
    /\ LET ms == Matches IN
       /\ \E k \in 1..Len(ms) : TildeSlash(TextOf(ms[k]))
       /\ \E k \in 1..Len(ms) : TextOf(ms[k]) = <<"~">>

-----------------------------------------------------------------------------
(* C7 *)

StatedOpener(m) ==
    LET expanded == HomeExpanded(m) IN Opener(FileScheme \o hostname \o Absolute(expanded))

\* C7: the URL of a match is file:// followed by the hostname and by the
\* (possibly home-expanded) string itself when it is absolute, and by the
\* current working directory joined with it otherwise; nothing else is done
\* to the path.
C7_Absolutization ==
    Rewrote => LET ms == Matches IN result = Assemble(line, ms, StatedOpener, Closer)

\* an absolute and a relative match in one line, in a directory other than /
C7_Witness ==
    /\ Rewrote
    /\ cwd # <<"/">>
    /\ LET ms == Matches IN
       /\ \E k \in 1..Len(ms) : line[ms[k].start] = "/"
       /\ \E k \in 1..Len(ms) : line[ms[k].start] \notin {"/", "~"}

-----------------------------------------------------------------------------
(* C10 *)

\* the catalog with entries i and i + 1 exchanged
SwapAdjacent(pfx, i) ==
    [k \in 1..Len(pfx) |-> IF k = i THEN pfx[i + 1] ELSE IF k = i + 1 THEN pfx[i] ELSE pfx[k]]

\* C10: the order of the catalog does not change the output: exchanging two
\* neighbours of the catalog, from which every permutation is composed,
\* leaves the output of process_line the same.
C10_OrderIrrelevant ==
    Rewrote =>
        \A i \in 1..(Len(prefixes) - 1) :
            process_line(line, Regex_new(build_pattern(SwapAdjacent(prefixes, i))),
                         hostname, home, cwd) = result

-----------------------------------------------------------------------------
(* C8 *)

\* what main writes for the k-th chunk it read
Written(k) == process_line(StripLine(stdin_read[k]), re, hostname, home, cwd) \o <<LF>>

LoopOrder ==
    /\ Len(stdout) <= Len(stdin_read)
    /\ Len(stdin_read) <= Len(stdout) + 1
    /\ pc = "read" => Len(stdout) = Len(stdin_read)
    /\ exit_status = "ok" => Len(stdout) = Len(stdin_read)
    /\ exit_status = "err" => pc = "exit"
    /\ \A k \in 1..Len(stdout) :
          /\ stdout[k] = Written(k)
          /\ LF \notin Range(SubSeq(stdout[k], 1, Len(stdout[k]) - 1))

LoopStep ==
    /\ stdin_read' # stdin_read =>
          /\ Len(stdout) = Len(stdin_read)
          /\ SubSeq(stdin_read', 1, Len(stdin_read)) = stdin_read
          /\ Len(stdin_read') = Len(stdin_read) + 1
    /\ stdout' # stdout =>
          /\ Len(stdout') = Len(stdout) + 1
          /\ SubSeq(stdout', 1, Len(stdout)) = stdout
          /\ Len(stdout') = Len(stdin_read)
    /\ exit_status' = "err" => stdout' = stdout /\ stdin_read' = stdin_read /\ pc' = "exit"
    /\ pc = "exit" => UNCHANGED vars

\* C8: the loop is sequential and order-preserving: line k is written, as one
\* newline-terminated line holding its rewritten form, before line k+1 is
\* read; a failed read or write ends the process with the error and nothing
\* is written after it.
C8_SequentialLoop == [](LoopOrder) /\ [][LoopStep]_vars

\* a second write failed after a first line went through
C8_Witness ==
    /\ exit_status = "err"
    /\ Len(stdout) = 1
    /\ Len(stdin_read) = 2
    /\ stdout[1] # stdin_read[1]

-----------------------------------------------------------------------------
(* C9 *)

\* main ended before it compiled the pattern
EndedAtStartup == pc = "exit" /\ ~re.ok

\* C9: when the current working directory cannot be read (no permission, or
\* deleted), main does not end at startup and its catalog is the 19 fixed
\* prefixes followed by the tilde.
C9_UnreadableCwdNotFatal ==
    env.cwd.state \in {"unreadable", "deleted"} =>
        /\ ~EndedAtStartup
        /\ pc \in {"regex", "read", "process", "write"} =>
              /\ Len(prefixes) = Len(FixedPrefixes) + 1
              /\ \A i \in 1..Len(FixedPrefixes) : prefixes[i] = regex_escape(FixedPrefixes[i])
              /\ prefixes[Len(prefixes)] = <<BACKSLASH, "~">>

====
